---- MODULE Spec2Model ----
(***************************************************************************)
(* A model of the JSON parser of rust_json (src/src/parsing.rs) and of the *)
(* Display rendering of its value type (src/src/json.rs).                  *)
(*                                                                         *)
(* A text is a sequence of characters; a character is an atom (a string).  *)
(* JSON::from_str runs in three stages: tokenize_input, the token loop     *)
(* that builds a forest of Rc<RefCell<Node>> under an explicit scope       *)
(* stack, and the resolution loop driven by TreeIterator.                  *)
(***************************************************************************)
EXTENDS Integers, Sequences, FiniteSets, TLC

VARIABLES
    source,         \* how the text was drawn, and the value it denotes if known
    input,          \* s: the text given to from_str
    pc,             \* position in from_str: tokenize, build, resolve, finish, done
    round,          \* 1: parse of the given text; 2: parse of its rendering
    first,          \* the value the first round returned (None before)
    tokens,         \* Vec<&str> returned by tokenize_input
    lexer,          \* tokenize_input's locals when its loop ended
    tk,             \* index (0-based) of the next token of the token loop
    nodes,          \* the Node arena: node id -> Node
    current_scope,  \* the scope stack (node ids, bottom first)
    iter,           \* TreeIterator.stack: <<node id, childed>> pairs
    yielded,        \* node ids in the order TreeIterator::next returned them
    parsed_json,    \* the value the resolution loop broke with
    result,         \* what from_str returned
    helper_stack    \* lib.rs: `stack`, the Vec<ParsingHelper> its from_str builds

vars == <<source, input, pc, round, first, tokens, lexer, tk, nodes, current_scope,
          iter, yielded, parsed_json, result, helper_stack>>

(***************************************************************************)
(* Bounds of the model.                                                    *)
(***************************************************************************)
MaxLen == 4        \* characters of a raw text
MaxToks == 4       \* tokens of a token text
MaxElems == 3      \* elements of a flat array text
MaxMembers == 3    \* members of a flat object text
MaxDepth == 2      \* nesting depth of a nested text

(***************************************************************************)
(* Characters.  Every character is one byte wide in UTF-8 except WideCh.   *)
(***************************************************************************)
Quote == "\""
Backslash == "\\"
Space == " "
WideCh == "U+00E9"

control_chars == {"{", "}", "[", "]", ":", ","}

is_whitespace(c) == c \in {" ", "\n", "\t", "\r"}

len_utf8(c) == IF c = WideCh THEN 2 ELSE 1

\* the byte offsets at which the characters of s start, and its byte length:
\* ByteOffsets(s)[k + 1] is the offset of the k-th character (0-based)
RECURSIVE ByteOffsetsFrom(_, _, _)
ByteOffsetsFrom(s, k, acc) ==
    IF k > Len(s) THEN acc
    ELSE ByteOffsetsFrom(s, k + 1, Append(acc, acc[k] + len_utf8(s[k])))

ByteOffsets(s) == ByteOffsetsFrom(s, 1, <<0>>)

ByteLen(s) == ByteOffsets(s)[Len(s) + 1]

is_char_boundary(offs, x) == \E k \in 1..Len(offs) : offs[k] = x

\* &s[a..b]: a and b are byte offsets; the slice panics unless a <= b <= len
\* and both fall on character boundaries
StrSlice(s, a, b) ==
    LET offs == ByteOffsets(s) IN
    IF a <= b /\ is_char_boundary(offs, a) /\ is_char_boundary(offs, b)
    THEN LET ka == CHOOSE k \in 1..Len(offs) : offs[k] = a
             kb == CHOOSE k \in 1..Len(offs) : offs[k] = b
         IN [ok |-> TRUE, str |-> SubSeq(s, ka, kb - 1)]
    ELSE [ok |-> FALSE, str |-> <<>>]

(***************************************************************************)
(* tokenize_input.  The loop runs over s.chars().enumerate(): i counts     *)
(* characters, and the slices are taken at i as a byte offset.             *)
(***************************************************************************)
TokOk(toks, esc, instr, start) ==
    [kind |-> "Ok", tokens |-> toks, escaped |-> esc, in_string |-> instr,
     start_idx |-> start, msg |-> ""]

TokFail(kind, toks, esc, instr, start, msg) ==
    [kind |-> kind, tokens |-> toks, escaped |-> esc, in_string |-> instr,
     start_idx |-> start, msg |-> msg]

\* one pass of the loop body for the character c at index i, on the locals st
TokBody(s, i, st) ==
    LET c == s[i + 1]
        toks == st.tokens
        esc == st.escaped
        instr == st.in_string
        start == st.start_idx
    IN
    IF ~instr /\ is_whitespace(c) THEN TokOk(toks, esc, instr, i + 1)
    ELSE IF c = Backslash /\ ~instr
         THEN TokFail("Err", toks, esc, instr, start, "Unexpected escape character")
    ELSE IF c = Backslash /\ ~esc THEN TokOk(toks, TRUE, instr, start)
    ELSE LET esc2 == IF c = Backslash THEN FALSE ELSE esc IN
         IF c = Quote THEN
            IF ~instr THEN TokOk(toks, esc2, TRUE, i)
            ELSE LET sl == StrSlice(s, start, i + 1) IN
                 IF sl.ok THEN TokOk(Append(toks, sl.str), esc2, FALSE, i + 1)
                 ELSE TokFail("Panic", toks, esc2, instr, start, "byte index is not a char boundary")
         ELSE IF instr THEN TokOk(toks, esc2, instr, start)
         ELSE IF c \in control_chars THEN
            LET run == StrSlice(s, start, i)
                one == StrSlice(s, i, i + 1)
                toks1 == IF start < i THEN Append(toks, run.str) ELSE toks
            IN IF (start < i /\ ~run.ok) \/ ~one.ok
               THEN TokFail("Panic", toks, esc2, instr, start, "byte index is not a char boundary")
               ELSE TokOk(Append(toks1, one.str), esc2, instr, i + 1)
         ELSE TokOk(toks, esc2, instr, start)

RECURSIVE TokLoop(_, _, _)
TokLoop(s, i, st) ==
    IF i = Len(s) \/ st.kind # "Ok" THEN st
    ELSE TokLoop(s, i + 1, TokBody(s, i, st))

tokenize_input(s) == TokLoop(s, 0, TokOk(<<>>, FALSE, FALSE, 0))

(***************************************************************************)
(* The value type (json.rs: enum with variants Null, Bool, Number, String, *)
(* Array, Object).  An Object holds a HashMap: a function from keys to     *)
(* values, with no order.  None is Option::None.                           *)
(***************************************************************************)
None == [t |-> "None"]
Null == [t |-> "Null"]
Bool(b) == [t |-> "Bool", b |-> b]
Number(cls, n) == [t |-> "Number", cls |-> cls, n |-> n]
String(s) == [t |-> "String", s |-> s]
Array(a) == [t |-> "Array", a |-> a]
Object(o) == [t |-> "Object", o |-> o]

EmptyMap == [k \in {} |-> None]

\* HashMap::insert: the entry of key k is replaced, or added
MapInsert(o, k, v) == [x \in (DOMAIN o) \cup {k} |-> IF x = k THEN v ELSE o[x]]

\* JSONValue::at and JSONValue::get
at(v, index) ==
    IF v.t = "Array" /\ index < Len(v.a) THEN v.a[index + 1] ELSE None

get(v, key) ==
    IF v.t = "Object" /\ key \in DOMAIN v.o THEN v.o[key] ELSE None

\* derive(PartialEq): structural equality, where a NaN number equals nothing
RECURSIVE ValueEq(_, _)
ValueEq(x, y) ==
    IF x.t # y.t THEN FALSE
    ELSE CASE x.t = "Number" -> x.cls # "nan" /\ y.cls # "nan" /\ x = y
           [] x.t = "Array" ->
                /\ Len(x.a) = Len(y.a)
                /\ \A i \in 1..Len(x.a) : ValueEq(x.a[i], y.a[i])
           [] x.t = "Object" ->
                /\ DOMAIN x.o = DOMAIN y.o
                /\ \A k \in DOMAIN x.o : ValueEq(x.o[k], y.o[k])
           [] OTHER -> x = y

(***************************************************************************)
(* Text of numbers.  The alphabet of the model holds decimal digits and    *)
(* letters, and neither a sign, a decimal point nor an exponent, so a      *)
(* token parses as f64 exactly when it is a run of digits or, without      *)
(* regard to case, one of the words inf, infinity and nan.                 *)
(***************************************************************************)
Digits == <<"0", "1", "2", "3", "4", "5", "6", "7", "8", "9">>

IsDigit(c) == \E d \in 1..10 : Digits[d] = c

DigitVal(c) == (CHOOSE d \in 1..10 : Digits[d] = c) - 1

RECURSIVE DecVal(_)
DecVal(s) == IF s = <<>> THEN 0
             ELSE 10 * DecVal(SubSeq(s, 1, Len(s) - 1)) + DigitVal(s[Len(s)])

RECURSIVE NatToStr(_)
NatToStr(n) == IF n < 10 THEN <<Digits[n + 1]>>
               ELSE NatToStr(n \div 10) \o <<Digits[(n % 10) + 1]>>

to_ascii_lowercase(c) ==
    CASE c = "N" -> "n" [] c = "A" -> "a" [] c = "I" -> "i" [] c = "F" -> "f"
      [] c = "T" -> "t" [] c = "Y" -> "y" [] OTHER -> c

LowerStr(s) == [i \in 1..Len(s) |-> to_ascii_lowercase(s[i])]

\* st.parse::<f64>()
ParseF64(st) ==
    IF st # <<>> /\ \A i \in 1..Len(st) : IsDigit(st[i])
    THEN [ok |-> TRUE, val |-> Number("fin", DecVal(st))]
    ELSE IF LowerStr(st) \in {<<"i", "n", "f">>, <<"i", "n", "f", "i", "n", "i", "t", "y">>}
    THEN [ok |-> TRUE, val |-> Number("inf", 0)]
    ELSE IF LowerStr(st) = <<"n", "a", "n">>
    THEN [ok |-> TRUE, val |-> Number("nan", 0)]
    ELSE [ok |-> FALSE, val |-> None]

\* Display of f64
DisplayF64(v) ==
    CASE v.cls = "fin" -> NatToStr(v.n)
      [] v.cls = "inf" -> <<"i", "n", "f">>
      [] v.cls = "nan" -> <<"N", "a", "N">>

(***************************************************************************)
(* The literal token of the token loop: the value it stands for and the    *)
(* message used when it cannot be placed.                                  *)
(***************************************************************************)
TrueTok == <<"t", "r", "u", "e">>
FalseTok == <<"f", "a", "l", "s", "e">>
NullTok == <<"n", "u", "l", "l">>

\* st[1..st.len() - 1]
StripEnds(st) == StrSlice(st, 1, ByteLen(st) - 1)

LiteralOf(st) ==
    IF st = TrueTok THEN [ok |-> TRUE, val |-> Bool(TRUE), err |-> "Unexpected boolean literal"]
    ELSE IF st = FalseTok THEN [ok |-> TRUE, val |-> Bool(FALSE), err |-> "Unexpected boolean literal"]
    ELSE IF st = NullTok THEN [ok |-> TRUE, val |-> Null, err |-> "Unexpected null value"]
    ELSE IF ParseF64(st).ok THEN [ok |-> TRUE, val |-> ParseF64(st).val, err |-> "Unexpected number"]
    ELSE IF StripEnds(st).ok
         THEN [ok |-> TRUE, val |-> String(StripEnds(st).str), err |-> "Unexpected string"]
         ELSE [ok |-> FALSE, val |-> None, err |-> "slice index out of range"]

(***************************************************************************)
(* Display for the value type.  A HashMap is iterated in an order the      *)
(* program does not choose, so an Object has one rendering for every order *)
(* of its keys: DisplaySet(v) is the set of texts v can render to.         *)
(***************************************************************************)
RECURSIVE JoinWith(_, _)
JoinWith(parts, sep) ==
    IF parts = <<>> THEN <<>>
    ELSE IF Len(parts) = 1 THEN parts[1]
    ELSE parts[1] \o sep \o JoinWith(Tail(parts), sep)

\* all sequences whose i-th element is drawn from sets[i]
RECURSIVE SeqProduct(_)
SeqProduct(sets) ==
    IF sets = <<>> THEN {<<>>}
    ELSE {<<h>> \o t : h \in sets[1], t \in SeqProduct(Tail(sets))}

Orders(S) == {p \in [1..Cardinality(S) -> S] : \A i, j \in DOMAIN p : p[i] = p[j] => i = j}

\* a separator without the space
CommaOnly == <<",">>

CommaSpace == <<",", " ">>

RECURSIVE DisplaySet(_)
DisplaySet(v) ==
    CASE v.t = "Null" -> {NullTok}
      [] v.t = "Bool" -> {IF v.b THEN TrueTok ELSE FalseTok}
      [] v.t = "Number" -> {DisplayF64(v)}
      [] v.t = "String" -> {<<Quote>> \o v.s \o <<Quote>>}
      [] v.t = "Array" ->
            {<<"[">> \o JoinWith(parts, CommaSpace) \o <<"]">> :
                parts \in SeqProduct([i \in 1..Len(v.a) |-> DisplaySet(v.a[i])])}
      [] v.t = "Object" ->
            UNION {
                {<<"{">> \o JoinWith(parts, CommaSpace) \o <<"}">> :
                    parts \in SeqProduct([i \in 1..Len(ord) |->
                        {<<Quote>> \o ord[i] \o <<Quote, ":", " ">> \o r :
                            r \in DisplaySet(v.o[ord[i]])}])}
                : ord \in Orders(DOMAIN v.o)}

(***************************************************************************)
(* Nodes.  An Rc<RefCell<Node>> is a node id, an index into the arena      *)
(* `nodes`; a dropped node stays in the arena with live = FALSE.  The      *)
(* strong count of a node is the number of handles to it: its places in    *)
(* the children of live nodes, on the scope stack and on the iterator's    *)
(* stack, and the locals that hold it.                                     *)
(***************************************************************************)
NewNode(metadata, value) ==
    [children |-> <<>>, metadata |-> metadata, key |-> <<>>, value |-> value,
     live |-> TRUE]

Last(seq) == seq[Len(seq)]

Front(seq) == SubSeq(seq, 1, Len(seq) - 1)

Occurrences(seq, x) == Cardinality({i \in 1..Len(seq) : seq[i] = x})

RECURSIVE SumOver(_, _)
SumOver(f, S) == IF S = {} THEN 0
                 ELSE LET x == CHOOSE y \in S : TRUE IN f[x] + SumOver(f, S \ {x})

\* handles to node id held by children vectors, the scope stack and the
\* iterator stack
RefCount(ns, scope, stack, id) ==
    SumOver([p \in 1..Len(ns) |->
              IF ns[p].live THEN Occurrences(ns[p].children, id) ELSE 0],
            1..Len(ns))
    + Occurrences(scope, id)
    + Occurrences([i \in 1..Len(stack) |-> stack[i][1]], id)

(***************************************************************************)
(* What from_str returns: Ok(value), Err(ParseError(msg)) or a panic, with *)
(* the stage it returned from.                                             *)
(***************************************************************************)
Pending == [kind |-> "Pending", err |-> "", msg |-> "", value |-> None, stage |-> ""]

Err(msg, stage) ==
    [kind |-> "Err", err |-> "ParseError", msg |-> msg, value |-> None, stage |-> stage]

Panic(msg, stage) ==
    [kind |-> "Panic", err |-> "", msg |-> msg, value |-> None, stage |-> stage]

Ok(v) == [kind |-> "Ok", err |-> "", msg |-> "", value |-> v, stage |-> "finish"]

(***************************************************************************)
(* add_to_top: link child_node under the top of the scope stack.           *)
(***************************************************************************)
Containers == {"Object", "Array", "Literal"}

\* an add_to_top that leaves a key on the stack when its value is linked
add_to_top_keeps_key(ns, vect, child_node, err_str) ==
    IF vect = <<>> THEN [kind |-> "Ok", nodes |-> ns, vect |-> vect, msg |-> ""]
    ELSE LET rc == Last(vect)
             cur == ns[child_node].metadata
             top == ns[rc].metadata
             linked == [ns EXCEPT ![rc].children = Append(@, child_node)]
         IN
         IF rc = child_node
         THEN [kind |-> "Panic", nodes |-> ns, vect |-> vect, msg |-> "already borrowed"]
         ELSE IF cur \in Containers /\ top \in {"Key", "Object", "Array", "Default"}
         THEN [kind |-> "Ok", nodes |-> linked, vect |-> vect, msg |-> ""]
         ELSE IF cur \in {"Key", "NeedKey"} /\ top = "Object"
         THEN [kind |-> "Ok", nodes |-> linked, vect |-> vect, msg |-> ""]
         ELSE [kind |-> "Err", nodes |-> ns, vect |-> vect, msg |-> err_str]

add_to_top(ns, vect, child_node, err_str) ==
    IF vect = <<>> THEN [kind |-> "Ok", nodes |-> ns, vect |-> vect, msg |-> ""]
    ELSE LET rc == Last(vect)
             cur == ns[child_node].metadata
             top == ns[rc].metadata
             linked == [ns EXCEPT ![rc].children = Append(@, child_node)]
         IN
         IF rc = child_node
         THEN [kind |-> "Panic", nodes |-> ns, vect |-> vect, msg |-> "already borrowed"]
         ELSE IF cur \in Containers /\ top = "Key"
         THEN [kind |-> "Ok", nodes |-> linked, vect |-> Front(vect), msg |-> ""]
         ELSE IF cur \in Containers /\ top \in {"Object", "Array", "Default"}
         THEN [kind |-> "Ok", nodes |-> linked, vect |-> vect, msg |-> ""]
         ELSE IF cur \in {"Key", "NeedKey"} /\ top = "Object"
         THEN [kind |-> "Ok", nodes |-> linked, vect |-> vect, msg |-> ""]
         ELSE [kind |-> "Err", nodes |-> ns, vect |-> vect, msg |-> err_str]

(***************************************************************************)
(* The texts from_str is run on.                                           *)
(*   raw:    every text of at most MaxLen characters of RawChars;          *)
(*   toks:   every concatenation of at most MaxToks pieces of TokPieces;   *)
(*   edit:   a well-formed text with a span of tokens cut out and at most  *)
(*           one piece of EditPieces put in its place;                     *)
(*   array:  '[e1, ..., en]' over scalar literals;                         *)
(*   object: '{"k1": v1, ..., "kn": vn}' over scalar literals, keys may    *)
(*           repeat;                                                       *)
(*   nested: a scalar or an empty container, inside arrays and objects     *)
(*           nested to depth MaxDepth.                                     *)
(* A generated text comes with the value it denotes (an item).             *)
(***************************************************************************)
RECURSIVE Flatten(_)
Flatten(parts) == IF parts = <<>> THEN <<>> ELSE parts[1] \o Flatten(Tail(parts))

SeqsUpTo(S, n) == UNION {[1..m -> S] : m \in 0..n}

RawChars == {"[", "]", ",", Quote, Backslash, Space, "1", "a", WideCh}

RawTexts == SeqsUpTo(RawChars, MaxLen)

StrK == <<Quote, "k", Quote>>

TokPieces == {<<"{">>, <<"}">>, <<"[">>, <<"]">>, <<":">>, <<",">>, StrK, <<"1">>}

EditPieces == TokPieces \cup {TrueTok, NullTok, <<"a", "a">>}

TokTexts == {Flatten(ps) : ps \in SeqsUpTo(TokPieces, MaxToks)}

BaseTexts == {
    <<<<"{">>, StrK, <<":">>, <<"1">>, <<",">>, StrK, <<":">>, TrueTok, <<"}">>>>,
    <<<<"[">>, <<"1">>, <<",">>, StrK, <<",">>, <<"[">>, <<"]">>, <<"]">>>>,
    <<<<"{">>, StrK, <<":">>, <<"[">>, <<"1">>, <<"]">>, <<"}">>>> }

EditTexts ==
    {Flatten(SubSeq(b, 1, i) \o p \o SubSeq(b, j, Len(b))) :
        <<b, i, j, p>> \in
            {<<b, i, j, p>> \in BaseTexts \X (0..9) \X (1..10)
                                \X ({<<>>} \cup {<<t>> : t \in EditPieces}) :
                i <= Len(b) /\ i < j /\ j <= Len(b) + 1}}

\* dup: some object of the text has the same key twice
Item(text, value) == [text |-> text, value |-> value, dup |-> FALSE]

StrA == <<Quote, "a", Quote>>

StrWide == <<Quote, WideCh, Quote>>

Scalars == {Item(StrA, String(<<"a">>)),
            Item(<<"1">>, Number("fin", 1)),
            Item(TrueTok, Bool(TRUE)),
            Item(NullTok, Null),
            Item(StrWide, String(<<WideCh>>))}

ElemLits == {Item(StrA, String(<<"a">>)),
             Item(<<"1">>, Number("fin", 1)),
             Item(TrueTok, Bool(TRUE)),
             Item(<<Quote, "]", " ", ",", Quote>>, String(<<"]", " ", ",">>)),
             Item(<<"4", "2">>, Number("fin", 42)),
             Item(FalseTok, Bool(FALSE)),
             Item(StrWide, String(<<WideCh>>))}

MemberVals == {Item(StrA, String(<<"a">>)),
               Item(<<"1">>, Number("fin", 1)),
               Item(<<"2">>, Number("fin", 2)),
               Item(StrWide, String(<<WideCh>>))}

Keys == {<<"a">>, <<"b">>}

\* the separators of a text: after a comma and after a colon
Styles == {[comma |-> <<",">>, colon |-> <<":">>],
           [comma |-> <<",", " ">>, colon |-> <<":", " ">>]}

ArrayItem(elems, st) ==
    Item(<<"[">> \o JoinWith([i \in 1..Len(elems) |-> elems[i].text], st.comma) \o <<"]">>,
         Array([i \in 1..Len(elems) |-> elems[i].value]))

\* a member is <<key, item>>; the value of a key is that of its last member
ObjectItem(members, st) ==
    [dup |-> \E i, j \in 1..Len(members) : i # j /\ members[i][1] = members[j][1]]
    @@ Item(<<"{">> \o JoinWith([i \in 1..Len(members) |->
                        <<Quote>> \o members[i][1] \o <<Quote>> \o st.colon
                            \o members[i][2].text], st.comma) \o <<"}">>,
         Object([k \in {members[i][1] : i \in 1..Len(members)} |->
                    LET last == CHOOSE i \in 1..Len(members) :
                                    /\ members[i][1] = k
                                    /\ \A j \in 1..Len(members) :
                                            members[j][1] = k => j <= i
                    IN members[last][2].value]))

ArrayItems == {ArrayItem(es, st) : es \in SeqsUpTo(ElemLits, MaxElems), st \in Styles}

Spaced == CHOOSE st \in Styles : st.comma = <<",", " ">>

ObjectItems ==
    {ObjectItem(ms, Spaced) : ms \in SeqsUpTo(Keys \X MemberVals, MaxMembers) \ {<<>>}}

RECURSIVE NestedItems(_)
NestedItems(d) ==
    IF d = 0 THEN Scalars \cup {ArrayItem(<<>>, Spaced), ObjectItem(<<>>, Spaced)}
    ELSE LET inner == NestedItems(d - 1)
             one == Item(<<"1">>, Number("fin", 1))
         IN inner
            \cup {ArrayItem(<<x>>, Spaced) : x \in inner}
            \cup {ArrayItem(<<one, x>>, Spaced) : x \in inner}
            \cup {ObjectItem(<<<<<<"a">>, x>>>>, Spaced) : x \in inner}
            \cup {ObjectItem(<<<<<<"a">>, x>>, <<<<"b">>, one>>>>, Spaced) : x \in inner}
            \cup {ObjectItem(<<<<<<"b">>, one>>, <<<<"a">>, x>>>>, Spaced) : x \in inner}

Src(class, text, expect, dup) ==
    [class |-> class, text |-> text, expect |-> expect, dup |-> dup]

IsSource(src) ==
    \/ \E t \in RawTexts : src = Src("raw", t, None, FALSE)
    \/ \E t \in TokTexts : src = Src("toks", t, None, FALSE)
    \/ \E t \in EditTexts : src = Src("edit", t, None, FALSE)
    \/ \E it \in ArrayItems : src = Src("array", it.text, it.value, FALSE)
    \/ \E it \in ObjectItems : src = Src("object", it.text, it.value, it.dup)
    \/ \E it \in NestedItems(MaxDepth) : src = Src("nested", it.text, it.value, FALSE)

(***************************************************************************)
(* TreeIterator::next: expand the top of the stack until it is a node      *)
(* whose children were pushed already (or that has none), and pop it.      *)
(***************************************************************************)
RECURSIVE ExpandTop(_, _)
ExpandTop(ns, stack) ==
    LET top == Last(stack)
        children == ns[top[1]].children
    IN IF top[2] \/ children = <<>> THEN stack
       ELSE ExpandTop(ns, Front(stack) \o <<<<top[1], TRUE>>>>
                            \o [i \in 1..Len(children) |-> <<children[i], FALSE>>])

\* an iterator that yields the top of its stack before the children of it
IterNextTopFirst(ns, stack) ==
    IF stack = <<>> THEN [some |-> FALSE, node |-> 0, stack |-> stack]
    ELSE LET top == Last(stack)
             children == ns[top[1]].children
         IN [some |-> TRUE, node |-> top[1],
             stack |-> Front(stack)
                        \o [i \in 1..Len(children) |-> <<children[i], FALSE>>]]

IterNext(ns, stack) ==
    IF stack = <<>> THEN [some |-> FALSE, node |-> 0, stack |-> stack]
    ELSE LET ex == ExpandTop(ns, stack)
         IN [some |-> TRUE, node |-> Last(ex)[1], stack |-> Front(ex)]

(***************************************************************************)
(* JSON::from_str.                                                         *)
(***************************************************************************)
Top == 1    \* the arena index of top_node, the Default node made first

StartParse(text) ==
    /\ input' = text
    /\ pc' = "tokenize"
    /\ tokens' = <<>>
    /\ lexer' = TokOk(<<>>, FALSE, FALSE, 0)
    /\ tk' = 0
    /\ nodes' = <<>>
    /\ current_scope' = <<>>
    /\ iter' = <<>>
    /\ yielded' = <<>>
    /\ parsed_json' = None
    /\ result' = Pending

Init ==
    /\ IsSource(source)
    /\ input = source.text
    /\ pc = "tokenize"
    /\ round = 1
    /\ first = None
    /\ tokens = <<>>
    /\ lexer = TokOk(<<>>, FALSE, FALSE, 0)
    /\ tk = 0
    /\ nodes = <<>>
    /\ current_scope = <<>>
    /\ iter = <<>>
    /\ yielded = <<>>
    /\ parsed_json = None
    /\ result = Pending
    /\ helper_stack = <<>>

\* from_str returns r: nothing else of the call is left
Return(r) ==
    /\ pc' = "done"
    /\ result' = r

\* let tokens = tokenize_input(s)?; then top_node is made and pushed
Tokenize ==
    /\ pc = "tokenize"
    /\ LET t == tokenize_input(input) IN
        /\ lexer' = t
        /\ IF t.kind = "Ok"
           THEN /\ tokens' = t.tokens
                /\ nodes' = <<NewNode("Default", None)>>
                /\ current_scope' = <<Top>>
                /\ pc' = "build"
                /\ UNCHANGED result
           ELSE /\ Return(IF t.kind = "Err" THEN Err(t.msg, "tokenize")
                                            ELSE Panic(t.msg, "tokenize"))
                /\ UNCHANGED <<tokens, nodes, current_scope>>
    /\ UNCHANGED <<source, input, round, first, tk, iter, yielded, parsed_json,
                   helper_stack>>

Token == tokens[tk + 1]

InTokenLoop == pc = "build" /\ tk < Len(tokens)

\* the token was consumed: the forest and the scope stack are ns and scope
NextToken(ns, scope) ==
    /\ nodes' = ns
    /\ current_scope' = scope
    /\ tk' = tk + 1
    /\ UNCHANGED <<pc, result>>

\* the token loop returns an error (or panics) at this token
Reject(r) ==
    /\ Return(r)
    /\ UNCHANGED <<nodes, current_scope, tk>>

\* the outcome of an add_to_top call followed by pushing `pushed`
Linked(r, pushed) ==
    IF r.kind = "Ok" THEN NextToken(r.nodes, r.vect \o pushed)
    ELSE IF r.kind = "Err" THEN Reject(Err(r.msg, "build"))
    ELSE Reject(Panic(r.msg, "build"))

BuildFrame == UNCHANGED <<source, input, round, first, tokens, lexer, iter,
                          yielded, parsed_json, helper_stack>>

\* a builder that leaves the pending key of a new object off the scope stack
OpenObjectUnpushed ==
    /\ InTokenLoop /\ Token = <<"{">>
    /\ LET obj == Len(nodes) + 1
           elem == Len(nodes) + 2
           ns == nodes \o <<[NewNode("Object", None) EXCEPT !.children = <<elem>>],
                            NewNode("NeedKey", None)>>
       IN Linked(add_to_top(ns, current_scope, obj, "Unexpected start of object"),
                 <<obj>>)
    /\ BuildFrame

\* "{"
OpenObject ==
    /\ InTokenLoop /\ Token = <<"{">>
    /\ LET obj == Len(nodes) + 1
           elem == Len(nodes) + 2
           ns == nodes \o <<[NewNode("Object", None) EXCEPT !.children = <<elem>>],
                            NewNode("NeedKey", None)>>
       IN Linked(add_to_top(ns, current_scope, obj, "Unexpected start of object"),
                 <<obj, elem>>)
    /\ BuildFrame

\* a builder that takes a colon whatever is on top
ColonAnyTop ==
    /\ InTokenLoop /\ Token = <<":">>
    /\ NextToken(nodes, current_scope)
    /\ BuildFrame

\* ":"
Colon ==
    /\ InTokenLoop /\ Token = <<":">>
    /\ IF current_scope = <<>> THEN Reject(Err("Unexpected colon", "build"))
       ELSE IF nodes[Last(current_scope)].metadata = "Key"
       THEN NextToken(nodes, current_scope)
       ELSE Reject(Err("Unexpected colon", "build"))
    /\ BuildFrame

\* a builder that pops the top for "}" without looking at it
CloseObjectAnyTop ==
    /\ InTokenLoop /\ Token = <<"}">>
    /\ NextToken(nodes, Front(current_scope))
    /\ BuildFrame

\* a builder whose "}" also closes an object that waits for its first key,
\* leaving the pending key among the children
CloseObjectPastPending ==
    /\ InTokenLoop /\ Token = <<"}">>
    /\ IF current_scope = <<>> THEN Reject(Err("Unexpected end curly brace", "build"))
       ELSE IF nodes[Last(current_scope)].metadata = "Object"
       THEN NextToken(nodes, Front(current_scope))
       ELSE IF nodes[Last(current_scope)].metadata = "NeedKey"
       THEN NextToken(nodes, Front(Front(current_scope)))
       ELSE Reject(Err("Unexpected end curly brace", "build"))
    /\ BuildFrame

\* "}"
CloseObject ==
    /\ InTokenLoop /\ Token = <<"}">>
    /\ IF current_scope = <<>> THEN Reject(Err("Unexpected end curly brace", "build"))
       ELSE IF nodes[Last(current_scope)].metadata = "Object"
       THEN NextToken(nodes, Front(current_scope))
       ELSE Reject(Err("Unexpected end curly brace", "build"))
    /\ BuildFrame

\* "["
OpenArray ==
    /\ InTokenLoop /\ Token = <<"[">>
    /\ LET arr == Len(nodes) + 1
           ns == Append(nodes, NewNode("Array", None))
       IN Linked(add_to_top(ns, current_scope, arr, "Unexpected start of array"),
                 <<arr>>)
    /\ BuildFrame

\* a builder that pushes the pending key of a comma without linking it
CommaUnlinked ==
    /\ InTokenLoop /\ Token = <<",">>
    /\ IF current_scope = <<>> THEN Reject(Err("Unexpected comma", "build"))
       ELSE IF nodes[Last(current_scope)].metadata = "Array"
       THEN NextToken(nodes, current_scope)
       ELSE IF nodes[Last(current_scope)].metadata = "Object"
       THEN NextToken(Append(nodes, NewNode("NeedKey", None)),
                      Append(current_scope, Len(nodes) + 1))
       ELSE Reject(Err("Unexpected comma", "build"))
    /\ BuildFrame

\* ","
Comma ==
    /\ InTokenLoop /\ Token = <<",">>
    /\ IF current_scope = <<>> THEN Reject(Err("Unexpected comma", "build"))
       ELSE IF nodes[Last(current_scope)].metadata = "Array"
       THEN NextToken(nodes, current_scope)
       ELSE IF nodes[Last(current_scope)].metadata = "Object"
       THEN LET new_node == Len(nodes) + 1
                ns == Append(nodes, NewNode("NeedKey", None))
            IN Linked(add_to_top(ns, current_scope, new_node, "Unexpected comma"),
                      <<new_node>>)
       ELSE Reject(Err("Unexpected comma", "build"))
    /\ BuildFrame

\* "]"
CloseArray ==
    /\ InTokenLoop /\ Token = <<"]">>
    /\ IF current_scope = <<>> THEN Reject(Err("Unexpected end square brace", "build"))
       ELSE IF nodes[Last(current_scope)].metadata = "Array"
       THEN NextToken(nodes, Front(current_scope))
       ELSE Reject(Err("Unexpected end square brace", "build"))
    /\ BuildFrame

\* a builder that takes a literal of any kind for the key
AnyLiteralNamesKey(json_val) == TRUE

\* the arm (NodeMetadata::NeedKey, JSON::String(_)): the literal names the key
IsKeyLiteral(json_val) == json_val.t = "String"

\* Key(&st[1..st.len() - 1])
KeyOf(st) == StripEnds(st).str

IsStructural(st) == Len(st) = 1 /\ st[1] \in control_chars

\* any other token: a literal, which names the pending key or becomes a leaf
Literal ==
    /\ InTokenLoop /\ ~IsStructural(Token)
    /\ LET lit == LiteralOf(Token)
           parent == Last(current_scope)
       IN IF ~lit.ok THEN Reject(Panic(lit.err, "build"))
          ELSE IF current_scope # <<>> /\ nodes[parent].metadata = "NeedKey"
          THEN IF IsKeyLiteral(lit.val)
               THEN NextToken([nodes EXCEPT ![parent].metadata = "Key",
                                            ![parent].key = KeyOf(Token)],
                              current_scope)
               ELSE Reject(Err("Non string used as object key", "build"))
          ELSE LET node == Len(nodes) + 1
                   ns == Append(nodes, NewNode("Literal", lit.val))
               IN Linked(add_to_top(ns, current_scope, node, lit.err), <<>>)
    /\ BuildFrame

\* after the token loop: one scope must be left, and it heads the tree
\* a builder that hands the root to the iterator and keeps it on the stack
EndOfTokensKeepsRoot ==
    /\ pc = "build" /\ tk = Len(tokens)
    /\ IF Len(current_scope) > 1
       THEN /\ Return(Err("More than one independent JSON object detected", "build"))
            /\ UNCHANGED <<current_scope, iter>>
       ELSE IF current_scope = <<>>
       THEN /\ Return(Err("Extremely unexpected parsing error, everything consumed?",
                          "build"))
            /\ UNCHANGED <<current_scope, iter>>
       ELSE /\ iter' = <<<<Last(current_scope), FALSE>>>>
            /\ pc' = "resolve"
            /\ UNCHANGED <<current_scope, result>>
    /\ UNCHANGED <<source, input, round, first, tokens, lexer, tk, nodes, yielded,
                   parsed_json, helper_stack>>

EndOfTokens ==
    /\ pc = "build" /\ tk = Len(tokens)
    /\ IF Len(current_scope) > 1
       THEN /\ Return(Err("More than one independent JSON object detected", "build"))
            /\ UNCHANGED <<current_scope, iter>>
       ELSE IF current_scope = <<>>
       THEN /\ Return(Err("Extremely unexpected parsing error, everything consumed?",
                          "build"))
            /\ UNCHANGED <<current_scope, iter>>
       ELSE /\ iter' = <<<<Last(current_scope), FALSE>>>>
            /\ current_scope' = Front(current_scope)
            /\ pc' = "resolve"
            /\ UNCHANGED result
    /\ UNCHANGED <<source, input, round, first, tokens, lexer, tk, nodes, yielded,
                   parsed_json, helper_stack>>

(***************************************************************************)
(* The resolution loop.  Rc::into_inner(child) yields the node only if the *)
(* handle is the last one; its expect panics otherwise.  A node taken out  *)
(* of its Rc is dropped, and the handles in its children with it.          *)
(***************************************************************************)
Drained(ok, ns, vals, map, err_str) ==
    [ok |-> ok, nodes |-> ns, vals |-> vals, map |-> map, err_str |-> err_str]

\* json_vs.push(js)
PushValue(vals, js) == Append(vals, js)

\* children.drain(..).for_each(..) of the container `parent`; acc carries the
\* arena, json_vs or json_ob, and the error seen last
RECURSIVE Drain(_, _, _, _)
Drain(parent, scope, stack, acc) ==
    LET ns == acc.nodes
        children == ns[parent].children
    IN IF ~acc.ok \/ children = <<>> THEN acc
       ELSE LET child == Head(children)
                cn == ns[child]
                taken == [ns EXCEPT ![parent].children = Tail(@),
                                    ![child].live = FALSE]
            IN IF RefCount(ns, scope, stack, child) # 1
               THEN Drained(FALSE, ns, acc.vals, acc.map, "Should be only child")
               ELSE IF ns[parent].metadata = "Array"
               THEN Drain(parent, scope, stack,
                        IF cn.value # None
                        THEN Drained(TRUE, taken, PushValue(acc.vals, cn.value), acc.map,
                                     acc.err_str)
                        ELSE Drained(TRUE, taken, acc.vals, acc.map,
                                     "Unparsed child of array object"))
               ELSE Drain(parent, scope, stack,
                        IF cn.metadata = "Key" /\ cn.value # None
                        THEN Drained(TRUE, taken, acc.vals,
                                     MapInsert(acc.map, cn.key, cn.value), acc.err_str)
                        ELSE IF cn.value = None
                        THEN Drained(TRUE, taken, acc.vals, acc.map,
                                     "Unparsed child of object")
                        ELSE Drained(TRUE, taken, acc.vals, acc.map,
                                     "Non Keyed child of object"))

\* the match on n.metadata for a node without a value:
\* [kind, nodes, msg], kind one of Set (n.value was set), Skip, Err, Panic
Convert(ns, scope, stack, node) ==
    LET n == ns[node] IN
    CASE n.metadata \in {"Key", "Default"} ->
            IF Len(n.children) # 1
            THEN [kind |-> "Err", nodes |-> ns, msg |-> "Keyed object has more than one child"]
            ELSE LET child == n.children[1] IN
                 IF RefCount(ns, scope, stack, child) # 1
                 THEN [kind |-> "Panic", nodes |-> ns, msg |-> "Should be only child"]
                 ELSE [kind |-> "Set", msg |-> "",
                       nodes |-> [ns EXCEPT ![node].children = <<>>,
                                            ![node].value = ns[child].value,
                                            ![child].live = FALSE]]
      [] n.metadata \in {"Array", "Object"} ->
            LET d == Drain(node, scope, stack, Drained(TRUE, ns, <<>>, EmptyMap, "")) IN
            IF ~d.ok THEN [kind |-> "Panic", nodes |-> ns, msg |-> d.err_str]
            ELSE IF d.err_str # "" THEN [kind |-> "Err", nodes |-> ns, msg |-> d.err_str]
            ELSE [kind |-> "Set", msg |-> "",
                  nodes |-> [d.nodes EXCEPT ![node].value =
                                IF n.metadata = "Array" THEN Array(d.vals)
                                                        ELSE Object(d.map)]]
      [] n.metadata = "Literal" -> [kind |-> "Skip", nodes |-> ns, msg |-> ""]
      [] OTHER -> [kind |-> "Err", nodes |-> ns, msg |-> "Unexpected node in parse tree"]

ResolveFrame == UNCHANGED <<source, input, round, first, tokens, lexer, tk,
                            current_scope, helper_stack>>

\* one pass of the loop: take the next node of the iterator and convert it;
\* the loop breaks with the node's value when no other handle to it is left
ResolveStep ==
    /\ pc = "resolve"
    /\ LET nx == IterNext(nodes, iter) IN
       IF ~nx.some
       THEN /\ Return(Panic("Should break at bottom, non child node is root", "resolve"))
            /\ UNCHANGED <<nodes, iter, yielded, parsed_json>>
       ELSE /\ iter' = nx.stack
            /\ yielded' = Append(yielded, nx.node)
            /\ IF nodes[nx.node].value # None
               THEN UNCHANGED <<nodes, parsed_json, pc, result>>
               ELSE LET c == Convert(nodes, current_scope, nx.stack, nx.node) IN
                    CASE c.kind = "Err" ->
                            /\ Return(Err(c.msg, "resolve"))
                            /\ UNCHANGED <<nodes, parsed_json>>
                      [] c.kind = "Panic" ->
                            /\ Return(Panic(c.msg, "resolve"))
                            /\ UNCHANGED <<nodes, parsed_json>>
                      [] c.kind = "Skip" -> UNCHANGED <<nodes, parsed_json, pc, result>>
                      [] c.kind = "Set" ->
                            IF RefCount(c.nodes, current_scope, nx.stack, nx.node) = 0
                            THEN /\ nodes' = [c.nodes EXCEPT ![nx.node].live = FALSE]
                                 /\ parsed_json' = c.nodes[nx.node].value
                                 /\ pc' = "finish"
                                 /\ UNCHANGED result
                            ELSE /\ nodes' = c.nodes
                                 /\ UNCHANGED <<parsed_json, pc, result>>
    /\ ResolveFrame

\* after the loop: the iterator must be empty and the value present
Finish ==
    /\ pc = "finish"
    /\ LET nx == IterNext(nodes, iter) IN
       IF nx.some
       THEN /\ Return(Err("Multiple independent JSON objects present", "finish"))
            /\ iter' = nx.stack
            /\ yielded' = Append(yielded, nx.node)
       ELSE /\ Return(IF parsed_json # None THEN Ok(parsed_json)
                                            ELSE Err("Parsing failed??", "finish"))
            /\ UNCHANGED <<iter, yielded>>
    /\ UNCHANGED <<nodes, parsed_json>>
    /\ ResolveFrame

(***************************************************************************)
(* The round trip: a returned value is rendered by Display, in any order   *)
(* of its objects' keys, and the rendering is parsed again.                *)
(***************************************************************************)
Render ==
    /\ pc = "done" /\ round = 1 /\ result.kind = "Ok"
    /\ \E text \in DisplaySet(result.value) : StartParse(text)
    /\ round' = 2
    /\ first' = result.value
    /\ UNCHANGED <<source, helper_stack>>

Next ==
    \/ Tokenize
    \/ OpenObject
    \/ Colon
    \/ CloseObject
    \/ OpenArray
    \/ Comma
    \/ CloseArray
    \/ Literal
    \/ EndOfTokens
    \/ ResolveStep
    \/ Finish
    \/ Render

Spec == Init /\ [][Next]_vars

(***************************************************************************)
(* Properties of from_str and Display.                                     *)
(***************************************************************************)
Returned == pc = "done" /\ round = 1

HasChar(s, c) == \E i \in 1..Len(s) : s[i] = c

Adjacent(s, c, d) == \E i \in 1..(Len(s) - 1) : s[i] = c /\ s[i + 1] = d

\* the array v has exactly the elements of e, in their order
SameElements(v, e) ==
    /\ v.t = "Array"
    /\ \A i \in 0..(Len(e.a) - 1) : at(v, i) = e.a[i + 1]
    /\ at(v, Len(e.a)) = None

\* C1: for every array text '[e1, ..., en]' whose elements are string,
\* number or boolean literals, from_str returns an Array of exactly n
\* elements, at(i) being the value of e(i+1) in source order and at(n) none.
C1_ArrayElementsInOrder ==
    (Returned /\ source.class = "array") =>
        (result.kind = "Ok" /\ SameElements(result.value, source.expect))

\* C1 holds of the array texts whose characters are one byte wide
ArraysOfSingleByteLiterals ==
    (Returned /\ source.class = "array" /\ ~HasChar(source.text, WideCh)) =>
        (result.kind = "Ok" /\ SameElements(result.value, source.expect))

ArrayOfThreeParsed ==
    /\ Returned /\ source.class = "array" /\ result.kind = "Ok"
    /\ at(result.value, 0) = String(<<"]", " ", ",">>)
    /\ at(result.value, 1) = Number("fin", 42)
    /\ at(result.value, 2) = Bool(TRUE)
    /\ at(result.value, 3) = None

\* v holds, under every chain of get and at, what e holds there
RECURSIVE Agrees(_, _)
Agrees(v, e) ==
    CASE e.t = "Object" ->
            /\ v.t = "Object"
            /\ \A k \in DOMAIN e.o : get(v, k) # None /\ Agrees(get(v, k), e.o[k])
      [] e.t = "Array" ->
            /\ v.t = "Array"
            /\ \A i \in 0..(Len(e.a) - 1) : Agrees(at(v, i), e.a[i + 1])
      [] OTHER -> v = e

ObjectWithMembers ==
    /\ source.class \in {"object", "nested"}
    /\ source.expect.t = "Object"
    /\ source.expect.o # EmptyMap
    /\ ~source.dup

\* C2: for every object text whose members are 'key: value' pairs with
\* distinct quoted keys, from_str returns an Object in which get(k) is the
\* parsed value that follows key k, at every nesting depth.
C2_MembersByKey ==
    (Returned /\ ObjectWithMembers) =>
        (result.kind = "Ok" /\ Agrees(result.value, source.expect))

\* C2 holds of the texts of one-byte characters without an empty object
ObjectsOfSingleByteMembers ==
    (Returned /\ ObjectWithMembers /\ ~HasChar(source.text, WideCh)
        /\ ~Adjacent(source.text, "{", "}")) =>
        (result.kind = "Ok" /\ Agrees(result.value, source.expect))

\* the Tree Builder is about to take a token that is no string while the
\* top of the scope stack waits for a key
NonStringToken(st) ==
    \/ st \in {<<"[">>, <<"{">>}
    \/ /\ ~IsStructural(st)
       /\ LiteralOf(st).ok
       /\ LiteralOf(st).val.t \in {"Number", "Bool", "Null"}

ExpectingKey ==
    /\ InTokenLoop
    /\ current_scope # <<>>
    /\ nodes[Last(current_scope)].metadata = "NeedKey"

\* C3: whenever the Tree Builder is expecting an object key and the next
\* token is a number, true, false, null, '[' or '{', from_str fails with an
\* error at that token.
C3_NonStringKeyRejected ==
    [][(ExpectingKey /\ NonStringToken(Token)) =>
            (pc' = "done" /\ result'.kind = "Err")]_vars

KeywordAfterCommaRejected ==
    /\ Returned /\ tk >= 1 /\ tk < Len(tokens)
    /\ tokens[tk] = <<",">>
    /\ tokens[tk + 1] = TrueTok
    /\ nodes[Last(current_scope)].metadata = "NeedKey"
    /\ result = Err("Non string used as object key", "build")

\* C4: an input that is empty or holds only whitespace makes from_str fail
\* with UnexpectedEndOfInput.
C4_EmptyInputIsEndOfInput ==
    (Returned /\ \A i \in 1..Len(input) : is_whitespace(input[i])) =>
        (result.kind = "Err" /\ result.err = "UnexpectedEndOfInput")

\* the text ends inside a string: a quote opens a string, which the next
\* quote that no backslash escapes closes
RECURSIVE OpenAtEnd(_, _, _, _)
OpenAtEnd(s, i, open, esc) ==
    IF i > Len(s) THEN open
    ELSE IF ~open THEN OpenAtEnd(s, i + 1, s[i] = Quote, FALSE)
    ELSE IF esc THEN OpenAtEnd(s, i + 1, TRUE, FALSE)
    ELSE IF s[i] = Backslash THEN OpenAtEnd(s, i + 1, TRUE, TRUE)
    ELSE OpenAtEnd(s, i + 1, s[i] # Quote, FALSE)

EndsInsideString(s) == OpenAtEnd(s, 1, FALSE, FALSE)

\* C5: an input that ends inside an open string makes from_str fail with an
\* end-of-input error: it neither returns a value nor panics.
C5_OpenStringIsEndOfInput ==
    (Returned /\ EndsInsideString(input)) =>
        (result.kind = "Err" /\ result.err = "UnexpectedEndOfInput")

\* C6: when an object text has the same key more than once, from_str
\* succeeds and the Object maps the key to the value of its last occurrence,
\* with one entry for the key.
C6_LastOccurrenceWins ==
    (Returned /\ source.class = "object" /\ source.dup) =>
        /\ result.kind = "Ok"
        /\ result.value.t = "Object"
        /\ DOMAIN result.value.o = DOMAIN source.expect.o
        /\ \A k \in DOMAIN source.expect.o : get(result.value, k) = source.expect.o[k]

\* C6 holds of the object texts whose characters are one byte wide
RepeatedSingleByteKeys ==
    (Returned /\ source.class = "object" /\ source.dup
        /\ ~HasChar(source.text, WideCh)) =>
        /\ result.kind = "Ok"
        /\ result.value.t = "Object"
        /\ DOMAIN result.value.o = DOMAIN source.expect.o
        /\ \A k \in DOMAIN source.expect.o : get(result.value, k) = source.expect.o[k]

\* C7: for every text without a quote or a backslash inside its strings
\* that from_str accepts with value v, the rendering of v parses again, to a
\* value equal to v.
C7_RoundTrip ==
    (pc = "done" /\ round = 2 /\ ~HasChar(source.text, Backslash)) =>
        (result.kind = "Ok" /\ ValueEq(result.value, first))

\* C8: from_str accepts a text that is one complete value of any kind, an
\* object, an array, a string, a number, true, false or null, and returns
\* that value.
C8_AnyTopLevelValue ==
    (Returned /\ source.class = "nested") => result = Ok(source.expect)

(***************************************************************************)
(* The grammar of token sequences, as a recognizer that reads one token at *)
(* a time: stack holds the open containers, and expect says what may come. *)
(*   value: a value;  first_elem: a value or "]";  first_key: a key or "}" *)
(*   key: a key;  colon: ":";  more: "," or the closing bracket;           *)
(*   end: nothing, the top-level value is complete.                        *)
(***************************************************************************)
TokenKind(st) ==
    IF IsStructural(st) THEN st[1]
    ELSE IF Len(st) >= 2 /\ st[1] = Quote /\ st[Len(st)] = Quote THEN "string"
    ELSE "scalar"

\* every token is a structural character, a quoted string, a number or a keyword
WordTokens(toks) ==
    \A i \in 1..Len(toks) :
        \/ TokenKind(toks[i]) # "scalar"
        \/ toks[i] \in {TrueTok, FalseTok, NullTok}
        \/ \A j \in 1..Len(toks[i]) : IsDigit(toks[i][j])

Expecting(stack, expect) == [stack |-> stack, expect |-> expect, bad |-> FALSE]

Misplaced == [stack |-> <<>>, expect |-> "end", bad |-> TRUE]

AfterValue(stack) == Expecting(stack, IF stack = <<>> THEN "end" ELSE "more")

Accept(g, kind) ==
    CASE kind \in {"string", "scalar"} ->
            IF g.expect \in {"value", "first_elem"} THEN AfterValue(g.stack)
            ELSE IF g.expect \in {"first_key", "key"} /\ kind = "string"
            THEN Expecting(g.stack, "colon")
            ELSE Misplaced
      [] kind = "[" ->
            IF g.expect \in {"value", "first_elem"}
            THEN Expecting(Append(g.stack, "["), "first_elem") ELSE Misplaced
      [] kind = "{" ->
            IF g.expect \in {"value", "first_elem"}
            THEN Expecting(Append(g.stack, "{"), "first_key") ELSE Misplaced
      [] kind = "]" ->
            IF g.expect \in {"first_elem", "more"} /\ Last(g.stack) = "["
            THEN AfterValue(Front(g.stack)) ELSE Misplaced
      [] kind = "}" ->
            IF g.expect \in {"first_key", "more"} /\ Last(g.stack) = "{"
            THEN AfterValue(Front(g.stack)) ELSE Misplaced
      [] kind = "," ->
            IF g.expect = "more"
            THEN Expecting(g.stack, IF Last(g.stack) = "[" THEN "value" ELSE "key")
            ELSE Misplaced
      [] kind = ":" ->
            IF g.expect = "colon" THEN Expecting(g.stack, "value") ELSE Misplaced

\* the index of the first token the grammar does not allow, or 0
RECURSIVE FirstMisplaced(_, _, _)
FirstMisplaced(toks, i, g) ==
    IF i > Len(toks) THEN 0
    ELSE LET h == Accept(g, TokenKind(toks[i]))
         IN IF h.bad THEN i ELSE FirstMisplaced(toks, i + 1, h)

StructuralViolation(toks) == FirstMisplaced(toks, 1, Expecting(<<>>, "value"))

\* C9: any structural violation among the tokens, a close token that does
\* not match the open scope, a misplaced colon or comma, a value where one
\* is not allowed or a second top-level value, makes the Tree Builder fail
\* at the token where it occurs: no value is returned and the error is not
\* left to the resolution.
C9_ViolationReportedAtToken ==
    (Returned /\ lexer.kind = "Ok" /\ WordTokens(lexer.tokens)
        /\ StructuralViolation(lexer.tokens) > 0) =>
        /\ result.kind = "Err"
        /\ result.stage = "build"
        /\ tk < StructuralViolation(lexer.tokens)

\* text is a rendering of v as the canonical form describes it
RECURSIVE Renders(_, _), RendersElems(_, _), RendersMembers(_, _, _)
Renders(text, v) ==
    CASE v.t = "Null" -> text = <<"n", "u", "l", "l">>
      [] v.t = "Bool" -> text = (IF v.b THEN <<"t", "r", "u", "e">>
                                        ELSE <<"f", "a", "l", "s", "e">>)
      [] v.t = "Number" -> text = DisplayF64(v)
      [] v.t = "String" ->
            /\ Len(text) = Len(v.s) + 2
            /\ text[1] = Quote /\ text[Len(text)] = Quote
            /\ SubSeq(text, 2, Len(text) - 1) = v.s
      [] v.t = "Array" ->
            /\ Len(text) >= 2
            /\ text[1] = "[" /\ text[Len(text)] = "]"
            /\ RendersElems(SubSeq(text, 2, Len(text) - 1), v.a)
      [] v.t = "Object" ->
            /\ Len(text) >= 2
            /\ text[1] = "{" /\ text[Len(text)] = "}"
            /\ \E ord \in Orders(DOMAIN v.o) :
                    RendersMembers(SubSeq(text, 2, Len(text) - 1), ord, v.o)
      [] OTHER -> FALSE

\* body is the renderings of elems, joined by a comma and a space
RendersElems(body, elems) ==
    IF elems = <<>> THEN body = <<>>
    ELSE IF Len(elems) = 1 THEN Renders(body, elems[1])
    ELSE \E k \in 1..(Len(body) - 2) :
            /\ Renders(SubSeq(body, 1, k), elems[1])
            /\ body[k + 1] = "," /\ body[k + 2] = " "
            /\ RendersElems(SubSeq(body, k + 3, Len(body)), Tail(elems))

\* body is the members '"key": value' of o in the order ord, joined alike
RendersMembers(body, ord, o) ==
    IF ord = <<>> THEN body = <<>>
    ELSE LET key == ord[1]
             n == Len(key)
             rest == SubSeq(body, n + 5, Len(body))
         IN /\ Len(body) > n + 4
            /\ body[1] = Quote
            /\ SubSeq(body, 2, n + 1) = key
            /\ body[n + 2] = Quote /\ body[n + 3] = ":" /\ body[n + 4] = " "
            /\ IF Len(ord) = 1 THEN Renders(rest, o[key])
               ELSE \E k \in 1..(Len(rest) - 2) :
                        /\ Renders(SubSeq(rest, 1, k), o[key])
                        /\ rest[k + 1] = "," /\ rest[k + 2] = " "
                        /\ RendersMembers(SubSeq(rest, k + 3, Len(rest)), Tail(ord), o)

Rendered == round = 2 /\ pc = "tokenize"

\* C10: Display renders null as null, a Bool as true or false, a Number in
\* the default format of f64, a String as its content between double quotes
\* with no escaping, an Array as its elements joined by ", " between [ and ],
\* an Object as its members "key": value joined by ", " between { and }.
C10_CanonicalRendering == Rendered => Renders(input, first)

ArrayAndObjectRendered ==
    /\ Rendered
    /\ first = Object((<<"a">> :> Array(<<Number("fin", 1), String(<<"a">>)>>))
                        @@ (<<"b">> :> Number("fin", 1)))
    /\ input = <<"{", Quote, "b", Quote, ":", " ", "1", ",", " ",
                 Quote, "a", Quote, ":", " ", "[", "1", ",", " ", Quote, "a", Quote, "]", "}">>

(***************************************************************************)
(* Termination of a call.                                                  *)
(***************************************************************************)
\* C11: for every finite input from_str terminates, and the call ends by
\* returning a value or an error.
C11_EndsByReturning == pc = "done" => result.kind \in {"Ok", "Err"}

\* the stages of a call, in the order the call goes through them
Stage(p) ==
    CASE p = "tokenize" -> 0
      [] p = "build" -> 1
      [] p = "resolve" -> 2
      [] p = "finish" -> 3
      [] p = "done" -> 4

\* a step leaves the stage for a later one, takes one more token, takes one
\* more node from the iterator, or starts the second call
Advances ==
    \/ round' = round /\ Stage(pc') > Stage(pc)
    \/ round' = round /\ pc' = pc /\ pc = "build" /\ tk' = tk + 1
    \/ round' = round /\ pc' = pc /\ pc = "resolve" /\ Len(yielded') = Len(yielded) + 1
    \/ round' = round + 1

\* the call ends, by a return or by a panic: every step advances ...
EveryStepAdvances == [][Advances]_vars

\* ... and what a step advances is bounded by the input: one token at most
\* for a character, two nodes at most for a token, a node at most once out
\* of the iterator
LoopsBounded ==
    /\ round \in {1, 2}
    /\ Len(tokens) <= Len(input)
    /\ tk <= Len(tokens)
    /\ Len(nodes) <= 1 + 2 * tk
    /\ Len(yielded) <= Len(nodes)
    /\ \A i, j \in 1..Len(yielded) : yielded[i] = yielded[j] => i = j

(***************************************************************************)
(* The tokens of tokenize_input.                                           *)
(***************************************************************************)
Tokenized == round = 1 /\ pc = "build" /\ tk = 0

\* the number of backslashes that stand in a row right before st[i], not
\* counting st[1]
RECURSIVE BackslashRun(_, _)
BackslashRun(st, i) ==
    IF i > 2 /\ st[i - 1] = Backslash THEN 1 + BackslashRun(st, i - 1) ELSE 0

\* st[i] follows a backslash that begins an escape
EscapedAt(st, i) == BackslashRun(st, i) % 2 = 1

\* C12: inside a string a backslash begins an escape and the character after
\* it is consumed without interpretation: a string token has no quote after
\* its first character but its last, and that one is not escaped.
C12_EscapedQuoteStaysInString ==
    Tokenized =>
        \A k \in 1..Len(tokens) :
            LET st == tokens[k] IN
            st[1] = Quote =>
                \A i \in 2..Len(st) :
                    st[i] = Quote => (i = Len(st) /\ ~EscapedAt(st, i))

\* s with a space put in after its first p characters
InsertSpace(s, p) == SubSeq(s, 1, p) \o <<Space>> \o SubSeq(s, p + 1, Len(s))

\* c begins or ends a token by itself
Delimits(c) == c \in control_chars \/ c = Quote \/ is_whitespace(c)

\* the place after the first p characters of s lies between two tokens:
\* outside the strings and not within an unquoted run
BetweenTokens(s, p) ==
    /\ p \in 1..(Len(s) - 1)
    /\ ~EndsInsideString(SubSeq(s, 1, p))
    /\ Delimits(s[p]) \/ Delimits(s[p + 1])

\* C13: whitespace outside strings is insignificant: a space put between two
\* tokens of an input leaves the token sequence of tokenize_input unchanged.
C13_WhitespaceInsignificant ==
    Tokenized =>
        \A p \in 1..(Len(input) - 1) :
            BetweenTokens(input, p) =>
                LET spaced == tokenize_input(InsertSpace(input, p))
                IN spaced.kind = "Ok" /\ spaced.tokens = tokens

(***************************************************************************)
(* The end of the tokens.                                                  *)
(***************************************************************************)
\* every token was taken and a scope besides the root is still open
EndedWithOpenScope ==
    Returned /\ lexer.kind = "Ok" /\ tk = Len(tokens) /\ Len(current_scope) > 1

\* C14: at end of input from_str fails with UnexpectedEndOfInput whenever an
\* object, an array or a key awaiting its value is still open on the scope
\* stack.
C14_OpenScopeIsEndOfInput ==
    EndedWithOpenScope =>
        (result.kind = "Err" /\ result.err = "UnexpectedEndOfInput")

\* texts of one value each
ValueTexts ==
    {it.text : it \in {x \in NestedItems(1) : ~HasChar(x.text, WideCh)}} \cup {StrK}

\* text is two values in a row, with a space between them or with a bracket
\* or a quote where they meet
TwoValues(text) ==
    \E k \in 1..(Len(text) - 1) :
        /\ SubSeq(text, 1, k) \in ValueTexts
        /\ \/ /\ text[k + 1] = Space
              /\ SubSeq(text, k + 2, Len(text)) \in ValueTexts
           \/ /\ \/ text[k] \in {"]", "}", Quote}
                 \/ text[k + 1] \in {"[", "{", Quote}
              /\ SubSeq(text, k + 1, Len(text)) \in ValueTexts

MultipleValuesErrors == {"More than one independent JSON object detected",
                         "Multiple independent JSON objects present"}

\* C15: an input with a second top-level value after the first complete one
\* is rejected, with the error for multiple independent values.
C15_SecondValueRejected ==
    (Returned /\ TwoValues(input)) =>
        (result.kind = "Err" /\ result.msg \in MultipleValuesErrors)

\* a backslash stands in s outside the strings
BackslashOutsideString(s) ==
    \E i \in 1..Len(s) : s[i] = Backslash /\ ~EndsInsideString(SubSeq(s, 1, i - 1))

\* C16: a backslash outside a string makes the tokenizer fail with
\* UnexpectedCharacter, which carries the backslash and its line and column.
\* (No error of the program carries a position: the formula asks for the
\* kind of the error alone.)
C16_BackslashIsUnexpectedCharacter ==
    (Returned /\ BackslashOutsideString(input)) =>
        /\ result.kind = "Err"
        /\ result.stage = "tokenize"
        /\ result.err = "UnexpectedCharacter"

(***************************************************************************)
(* The steps of the Tree Builder.                                          *)
(***************************************************************************)
TopMetadata == nodes[Last(current_scope)].metadata

Taken(st) == InTokenLoop /\ Token = st

\* the token was accepted, and the scope stack and the forest are now these
Accepted(scope, ns) ==
    /\ pc' = "build" /\ tk' = tk + 1 /\ result' = result
    /\ current_scope' = scope
    /\ nodes' = ns

Failed == pc' = "done" /\ result'.kind = "Err"

FailedWith(msg) == pc' = "done" /\ result' = Err(msg, "build")

\* the close token st is valid on a scope of metadata meta alone, and pops it
Closes(st, meta) ==
    Taken(st) =>
        IF current_scope # <<>> /\ TopMetadata = meta
        THEN Accepted(Front(current_scope), nodes)
        ELSE Failed

\* C17: '}' succeeds only if the top of the scope stack is an Object node
\* and ']' only if it is an Array node; in every other state from_str fails,
\* and on success exactly that one scope is popped.
C17_CloseMatchesTop == [][Closes(<<"}">>, "Object") /\ Closes(<<"]">>, "Array")]_vars

\* a '}' was accepted and has left the root alone on the scope stack
ObjectClosedAtTop ==
    /\ round = 1 /\ pc = "build" /\ tk >= 1
    /\ tokens[tk] = <<"}">>
    /\ current_scope = <<Top>>
    /\ \E n \in 1..Len(nodes) : nodes[n].metadata = "Object"

\* C18: a colon is accepted only when the top of the scope stack is a Key
\* node; in every other state from_str fails with 'Unexpected colon', and an
\* accepted colon leaves the scope stack and the forest unchanged.
C18_ColonAfterKey ==
    [][Taken(<<":">>) =>
            IF current_scope # <<>> /\ TopMetadata = "Key"
            THEN Accepted(current_scope, nodes)
            ELSE FailedWith("Unexpected colon")]_vars

ColonAccepted ==
    /\ round = 1 /\ pc = "build" /\ tk >= 1
    /\ tokens[tk] = <<":">>
    /\ TopMetadata = "Key"
    /\ nodes[Last(current_scope)].children = <<>>

\* C19: a comma is accepted only when the top of the scope stack is an Array
\* (the scope stack is left unchanged) or an Object (a new pending-key node
\* is linked as a child of the object and pushed); with the root, a key or a
\* pending key on top from_str fails with 'Unexpected comma'.
C19_CommaInContainer ==
    [][Taken(<<",">>) =>
            IF current_scope # <<>> /\ TopMetadata = "Array"
            THEN Accepted(current_scope, nodes)
            ELSE IF current_scope # <<>> /\ TopMetadata = "Object"
            THEN LET obj == Last(current_scope)
                     pending == Len(nodes) + 1
                 IN Accepted(Append(current_scope, pending),
                             Append([nodes EXCEPT ![obj].children = Append(@, pending)],
                                    NewNode("NeedKey", None)))
            ELSE FailedWith("Unexpected comma")]_vars

\* a comma in an object was accepted: its pending key is on top, and is the
\* last child of the object below it
CommaInObjectAccepted ==
    /\ round = 1 /\ pc = "build" /\ tk >= 1
    /\ tokens[tk] = <<",">>
    /\ Len(current_scope) >= 2
    /\ TopMetadata = "NeedKey"
    /\ LET obj == current_scope[Len(current_scope) - 1]
       IN /\ nodes[obj].metadata = "Object"
          /\ Last(nodes[obj].children) = Last(current_scope)
          /\ Len(nodes[obj].children) >= 2

\* the token loop has ended without an error: the root alone was left on
\* the scope stack, and the resolution has not begun
BuilderFinished == pc = "resolve" /\ yielded = <<>>

NodesOf(meta) == {n \in 1..Len(nodes) : nodes[n].metadata = meta}

\* C20: whenever the builder finishes all tokens without error, every key
\* of an object has exactly one child, the value that followed it in the
\* source (the node made next after the key's node), and no pending-key
\* node remains in the forest, so every object has as many keyed values as
\* keys.
C20_EveryKeyHasItsValue ==
    BuilderFinished =>
        /\ NodesOf("NeedKey") = {}
        /\ \A k \in NodesOf("Key") :
            /\ nodes[k].children = <<k + 1>>
            /\ nodes[k + 1].metadata \in Containers
            /\ Cardinality({o \in NodesOf("Object") :
                                Occurrences(nodes[o].children, k) = 1}) = 1
        /\ \A o \in NodesOf("Object") :
            LET keys == {i \in 1..Len(nodes[o].children) :
                            nodes[nodes[o].children[i]].metadata = "Key"}
                keyed == {i \in keys : Len(nodes[nodes[o].children[i]].children) = 1}
            IN Cardinality(keys) = Cardinality(keyed)

\* an object of two keys, one of them with a container for its value
TwoKeysCollected ==
    /\ round = 1 /\ BuilderFinished
    /\ Cardinality(NodesOf("Key")) >= 2
    /\ \E k \in NodesOf("Key") : nodes[k + 1].metadata = "Array"

(***************************************************************************)
(* The resolution.                                                         *)
(***************************************************************************)
Range(seq) == {seq[i] : i \in 1..Len(seq)}

\* the iterator has yielded one more node
Yields == pc = "resolve" /\ Len(yielded') = Len(yielded) + 1

\* C21: TreeIterator traverses the forest in post-order: a node is yielded
\* once, and only after all of its children (so after all its descendants)
\* have been yielded, and when the loop ends with the root every node of the
\* forest has been yielded.
C21_PostOrder ==
    [][Yields =>
        LET n == Last(yielded') IN
        /\ n \notin Range(yielded)
        /\ Range(nodes[n].children) \subseteq Range(yielded)
        /\ pc' = "finish" => Range(yielded') = 1..Len(nodes)]_vars

\* the loop has ended with the root, after a container within a container
NestedTraversed ==
    /\ round = 1 /\ pc = "finish"
    /\ Last(yielded) = Top
    /\ Len(yielded) >= 6
    /\ \E i, j \in 1..Len(yielded) :
        /\ i < j
        /\ nodes[yielded[i]].metadata = "Array"
        /\ nodes[yielded[j]].metadata = "Object"

\* the failures of the resolver's own consistency checks
ConsistencyFailures ==
    {"Unparsed child of array object", "Unparsed child of object",
     "Unexpected node in parse tree", "Parsing failed??",
     "Extremely unexpected parsing error, everything consumed?"}

\* C22: no call ends with one of the resolver's internal-consistency
\* failures: every child of a container has its value when the container is
\* converted, every node without a value is a key, a root or a container,
\* and the root has its value when the loop ends.
C22_ConsistencyFailuresUnreachable == result.msg \notin ConsistencyFailures

\* the checks were passed: an array and an object, both with children, were
\* converted and the root's value was returned
ContainersConverted ==
    /\ Returned /\ result.kind = "Ok"
    /\ \E i, j \in Range(yielded) :
        /\ nodes[i].metadata = "Array" /\ nodes[i].value.t = "Array"
        /\ nodes[i].value.a # <<>>
        /\ nodes[j].metadata = "Object" /\ nodes[j].value.t = "Object"
        /\ DOMAIN nodes[j].value.o # {}

\* C23: every Rc::into_inner of the resolver finds a strong count of 1: the
\* scope stack is empty and a node the iterator has yielded is held by its
\* parent's children only, so no expect of the resolver fails; and the loop
\* stops exactly when the root has been converted, with the iterator empty.
C23_SoleHandleAtIntoInner ==
    /\ pc \in {"resolve", "finish"} => current_scope = <<>>
    /\ pc = "resolve" =>
        /\ Top \notin Range(yielded)
        /\ \A c \in Range(yielded) :
              nodes[c].live => RefCount(nodes, current_scope, iter, c) = 1
    /\ pc = "finish" =>
        /\ iter = <<>>
        /\ Last(yielded) = Top
        /\ ~nodes[Top].live
        /\ parsed_json # None
    /\ ~(result.kind = "Panic" /\ result.stage = "resolve")

\* the loop has stopped at the root after a key took its only child and an
\* object drained its keys
KeyAndRootTookTheirChild ==
    /\ round = 1 /\ pc = "finish"
    /\ \E k \in Range(yielded) :
        /\ nodes[k].metadata = "Key"
        /\ ~nodes[k].live
        /\ \E c \in Range(yielded) : nodes[c].metadata = "Literal" /\ ~nodes[c].live
    /\ nodes[Top].children = <<>>

(***************************************************************************)
(* lib.rs: JSONValue::from_str, the recursive parser.  Its character loop  *)
(* collects tokens as Strings, its token loop turns them into a stack of   *)
(* ParsingHelper markers, and parse_partial reads a value off that stack.  *)
(***************************************************************************)
LibErr(err, msg) == [kind |-> "Err", err |-> err, msg |-> msg, value |-> None,
                     stage |-> "lib"]

UnexpectedEndOfInput == LibErr("UnexpectedEndOfInput", "")

\* a ParsingHelper: a marker, or a scalar with its value
Helper(h) == [h |-> h, v |-> None]

Scalar(v) == [h |-> v.t, v |-> v]

\* one pass of `for c in s.chars()`: the locals after character c
LexChar(st, c) ==
    LET pushed == [st EXCEPT !.temp = Append(@, c)] IN
    IF ~st.in_string /\ is_whitespace(c) THEN st
    ELSE IF c = Backslash /\ ~st.in_string
    THEN [st EXCEPT !.kind = "Err", !.msg = "Unexpected escape character"]
    ELSE IF c = Backslash /\ ~st.escaped THEN [st EXCEPT !.escaped = TRUE]
    ELSE IF c = Backslash
    THEN \* the second backslash is pushed, and pushed again as a string character
         [st EXCEPT !.escaped = FALSE, !.temp = Append(Append(@, c), c)]
    ELSE IF c = Quote /\ ~st.in_string THEN [pushed EXCEPT !.in_string = TRUE]
    ELSE IF c = Quote
    THEN [st EXCEPT !.in_string = FALSE, !.tokens = Append(@, pushed.temp),
                    !.temp = <<>>]
    ELSE IF st.in_string THEN pushed
    ELSE IF c \in control_chars
    THEN [st EXCEPT !.tokens = (IF st.temp # <<>> THEN Append(@, st.temp) ELSE @)
                                    \o <<<<c>>>>,
                    !.temp = <<>>]
    ELSE pushed

RECURSIVE LexLoop(_, _, _)
LexLoop(s, k, st) ==
    IF k > Len(s) \/ st.kind # "Ok" THEN st
    ELSE LexLoop(s, k + 1, LexChar(st, s[k]))

\* the tokens of s, or the error the character loop returns
lib_tokens(s) ==
    LexLoop(s, 1, [kind |-> "Ok", msg |-> "", tokens |-> <<>>, temp |-> <<>>,
                   escaped |-> FALSE, in_string |-> FALSE])

\* one pass of `for token in tokens`: [kind, msg, stack, scope]
Pushed(stack, scope) == [kind |-> "Ok", msg |-> "", stack |-> stack, scope |-> scope]

Refused(kind, msg) == [kind |-> kind, msg |-> msg, stack |-> <<>>, scope |-> <<>>]

PushHelpers(token, stack, scope) ==
    LET top == IF scope = <<>> THEN "None" ELSE Last(scope) IN
    CASE token = <<"{">> ->
            Pushed(stack \o <<Helper("ObjStart"), Helper("KeyStart")>>,
                   Append(scope, "ObjStart"))
      [] token = <<":">> ->
            IF top = "ObjStart"
            THEN Pushed(stack \o <<Helper("KeyEnd"), Helper("ValueStart")>>, scope)
            ELSE Refused("Err", "Unexpected colon")
      [] token = <<"}">> ->
            IF top = "ObjStart"
            THEN Pushed(stack \o <<Helper("ValueEnd"), Helper("ObjEnd")>>, Front(scope))
            ELSE Refused("Err", "Unexpected end of object")
      [] token = <<"[">> ->
            Pushed(stack \o <<Helper("ArrayStart"), Helper("ElementStart")>>,
                   Append(scope, "ArrayStart"))
      [] token = <<",">> ->
            IF top = "ObjStart"
            THEN Pushed(stack \o <<Helper("ValueEnd"), Helper("KeyStart")>>, scope)
            ELSE IF top = "ArrayStart"
            THEN Pushed(stack \o <<Helper("ElementEnd"), Helper("ElementStart")>>, scope)
            ELSE Refused("Err", "Unexpected comma")
      [] token = <<"]">> ->
            IF top = "ArrayStart"
            THEN Pushed(stack \o <<Helper("ElementEnd"), Helper("ArrayEnd")>>,
                        Front(scope))
            ELSE Refused("Err", "Unexpected end of array")
      [] token = TrueTok -> Pushed(Append(stack, Scalar(Bool(TRUE))), scope)
      [] token = FalseTok -> Pushed(Append(stack, Scalar(Bool(FALSE))), scope)
      [] token = NullTok -> Pushed(Append(stack, Scalar(Null)), scope)
      [] OTHER ->
            LET num == ParseF64(token)
                sub == StrSlice(token, 1, ByteLen(token) - 1)
            IN IF num.ok THEN Pushed(Append(stack, Scalar(num.val)), scope)
               ELSE IF sub.ok THEN Pushed(Append(stack, Scalar(String(sub.str))), scope)
               ELSE Refused("Panic", "byte index is out of bounds or not a char boundary")

\* what parse_partial returns: Ok((value, rest)), an error, or a panic of a
\* slice index
Parsed(value, rest) == [kind |-> "Ok", err |-> "", msg |-> "", value |-> value,
                        rest |-> rest]

NotParsed(kind, err, msg) == [kind |-> kind, err |-> err, msg |-> msg,
                              value |-> None, rest |-> <<>>]

OutOfBounds == NotParsed("Panic", "", "index out of bounds")

RECURSIVE parse_partial(_), ObjLoop(_, _), ArrLoop(_, _)

\* the loop of the ObjStart arm: obj so far, slice left
ObjLoop(obj, slice) ==
    IF slice = <<>> THEN NotParsed("Err", "UnexpectedEndOfInput", "")
    ELSE IF slice[1].h = "ObjEnd" THEN Parsed(Object(obj), Tail(slice))
    ELSE IF slice[1].h # "KeyStart" THEN NotParsed("Err", "ParseError", "Expected key start")
    ELSE IF Len(slice) < 2 THEN OutOfBounds
    ELSE IF slice[2].h # "String" THEN NotParsed("Err", "ParseError", "Expected string key")
    ELSE IF Len(slice) < 3 THEN OutOfBounds
    ELSE IF slice[3].h # "KeyEnd" THEN NotParsed("Err", "ParseError", "Expected key end")
    ELSE IF Len(slice) < 4 THEN OutOfBounds
    ELSE IF slice[4].h # "ValueStart"
    THEN NotParsed("Err", "ParseError", "Expected value start")
    ELSE LET r == parse_partial(SubSeq(slice, 5, Len(slice))) IN
         IF r.kind # "Ok" THEN r
         ELSE IF r.rest = <<>> THEN OutOfBounds
         ELSE ObjLoop(MapInsert(obj, slice[2].v.s, r.value), Tail(r.rest))

\* the loop of the ArrayStart arm
ArrLoop(arr, slice) ==
    IF slice = <<>> THEN NotParsed("Err", "UnexpectedEndOfInput", "")
    ELSE IF slice[1].h = "ArrayEnd" THEN Parsed(Array(arr), Tail(slice))
    ELSE IF slice[1].h # "ElementStart"
    THEN NotParsed("Err", "ParseError", "Expected element start")
    ELSE LET r == parse_partial(Tail(slice)) IN
         IF r.kind # "Ok" THEN r
         ELSE IF r.rest = <<>> THEN OutOfBounds
         ELSE ArrLoop(Append(arr, r.value), Tail(r.rest))

parse_partial(toks) ==
    IF toks = <<>> THEN NotParsed("Err", "UnexpectedEndOfInput", "")
    ELSE LET first_tok == Head(toks) IN
         CASE first_tok.h \in {"String", "Number", "Bool", "Null"} ->
                Parsed(first_tok.v, Tail(toks))
           [] first_tok.h = "ObjStart" -> ObjLoop(EmptyMap, Tail(toks))
           [] first_tok.h = "ArrayStart" -> ArrLoop(<<>>, Tail(toks))
           [] OTHER -> NotParsed("Err", "ParseError", "Unexpected token in partial parse")

\* the texts given to lib.rs's from_str: a well-formed text cut after any
\* number of characters, and the token texts
IsLibSource(src) ==
    \/ \E it \in NestedItems(MaxDepth) : \E n \in 0..Len(it.text) :
          src = Src(IF n = Len(it.text) THEN "whole" ELSE "cut",
                    SubSeq(it.text, 1, n), it.value, FALSE)
    \/ \E t \in TokTexts : src = Src("toks", t, None, FALSE)

LibInit ==
    /\ IsLibSource(source)
    /\ input = source.text
    /\ pc = "lib_chars"
    /\ round = 1
    /\ first = None
    /\ tokens = <<>>
    /\ lexer = TokOk(<<>>, FALSE, FALSE, 0)
    /\ tk = 0
    /\ nodes = <<>>
    /\ current_scope = <<>>
    /\ iter = <<>>
    /\ yielded = <<>>
    /\ parsed_json = None
    /\ result = Pending
    /\ helper_stack = <<>>

LibFrame == UNCHANGED <<source, input, round, first, lexer, nodes, iter, yielded,
                        parsed_json>>

\* for c in s.chars()
LibChars ==
    /\ pc = "lib_chars"
    /\ LET t == lib_tokens(input) IN
       IF t.kind = "Ok"
       THEN /\ tokens' = t.tokens
            /\ pc' = "lib_tokens"
            /\ UNCHANGED result
       ELSE /\ Return(LibErr("ParseError", t.msg))
            /\ UNCHANGED tokens
    /\ UNCHANGED <<tk, current_scope, helper_stack>>
    /\ LibFrame

\* for token in tokens
LibToken ==
    /\ pc = "lib_tokens" /\ tk < Len(tokens)
    /\ LET r == PushHelpers(Token, helper_stack, current_scope) IN
       IF r.kind = "Ok"
       THEN /\ helper_stack' = r.stack
            /\ current_scope' = r.scope
            /\ tk' = tk + 1
            /\ UNCHANGED <<pc, result>>
       ELSE /\ Return(IF r.kind = "Err" THEN LibErr("ParseError", r.msg)
                                        ELSE Panic(r.msg, "lib"))
            /\ UNCHANGED <<helper_stack, current_scope, tk>>
    /\ UNCHANGED tokens
    /\ LibFrame

\* let (value, remaining) = parse_partial(&stack)?, and the check of remaining
LibParse ==
    /\ pc = "lib_tokens" /\ tk = Len(tokens)
    /\ LET r == parse_partial(helper_stack) IN
       Return(IF r.kind = "Panic" THEN Panic(r.msg, "lib")
              ELSE IF r.kind = "Err" THEN LibErr(r.err, r.msg)
              ELSE IF r.rest # <<>>
              THEN LibErr("ParseError", "Unexpected tokens at end of input")
              ELSE Ok(r.value))
    /\ UNCHANGED <<tokens, tk, current_scope, helper_stack>>
    /\ LibFrame

LibNext == LibChars \/ LibToken \/ LibParse

LibSpec == LibInit /\ [][LibNext]_vars

\* the text is a proper, non-empty part of a well-formed array or object:
\* it ends while that container is still open
EndsInOpenContainer ==
    /\ source.class = "cut"
    /\ input # <<>>
    /\ input[1] \in {"[", "{"}

\* C24: lib.rs's from_str reports a text that ends while an object or an
\* array is still open as UnexpectedEndOfInput: parse_partial does not
\* index its slice past the end.
C24_OpenContainerIsEndOfInput ==
    (pc = "done" /\ EndsInOpenContainer) => result = UnexpectedEndOfInput

\* C25: parsing.rs's from_str returns Ok or Err for every text and never
\* panics: no slice index, expect or borrow of it fails.
C25_NeverPanics == result.kind # "Panic"

\* C26: every accepted text is structurally well formed: its tokens are one
\* value in which commas stand between two values or members and every key
\* is followed by one colon and one value.
C26_AcceptedIsWellFormed ==
    (Returned /\ result.kind = "Ok") => StructuralViolation(lexer.tokens) = 0

\* the text holds an empty array or an empty object
HasEmptyContainer(text) == Adjacent(text, "[", "]") \/ Adjacent(text, "{", "}")

\* C27: empty containers parse: "[]" is the empty Array and "{}" the empty
\* Object, at the top level and wherever a value may appear.
C27_EmptyContainersParse ==
    (Returned /\ source.class = "nested" /\ HasEmptyContainer(source.text)) =>
        result = Ok(source.expect)

\* the empty array does parse, also as an element and as a member's value
EmptyArrayParses ==
    (Returned /\ source.class = "nested" /\ Adjacent(source.text, "[", "]")) =>
        result = Ok(source.expect)

\* st is no structural character, no keyword, no number and not in quotes
Unclassified(st) ==
    /\ ~IsStructural(st)
    /\ st \notin {TrueTok, FalseTok, NullTok}
    /\ ~ParseF64(st).ok
    /\ TokenKind(st) # "string"

\* C28: String values and object keys arise from double-quoted tokens only:
\* a text of single-byte characters with a token that is neither structural,
\* a keyword, a number nor quoted makes from_str return an error.
C28_UnquotedTokenRejected ==
    (Returned /\ lexer.kind = "Ok" /\ ~HasChar(source.text, WideCh)
        /\ \E i \in 1..Len(lexer.tokens) : Unclassified(lexer.tokens[i])) =>
        result.kind = "Err"

\* s with every wide character replaced by a one-byte character
Narrow(s) == [i \in 1..Len(s) |-> IF s[i] = WideCh THEN "a" ELSE s[i]]

\* every wide character of s stands inside a string
WideOnlyInStrings(s) ==
    \A i \in 1..Len(s) : s[i] = WideCh => EndsInsideString(SubSeq(s, 1, i - 1))

\* C29: the token boundaries of tokenize_input do not depend on the byte
\* width of the characters inside strings: the tokens of a text are, token
\* by token, those of the same text written with one-byte characters.
C29_TokensIndependentOfWidth ==
    (round = 1 /\ pc # "tokenize" /\ WideOnlyInStrings(input)) =>
        LET narrow == tokenize_input(Narrow(input)) IN
        /\ lexer.kind = narrow.kind
        /\ Len(lexer.tokens) = Len(narrow.tokens)
        /\ \A k \in 1..Len(lexer.tokens) : Narrow(lexer.tokens[k]) = narrow.tokens[k]

\* C30: during the token loop the scope stack is never empty and its bottom
\* is the root, so no branch for an empty stack is taken; a key or a pending
\* key is on the stack only as its top, directly above the Object that owns
\* it.
C30_ScopeStackShape ==
    pc = "build" =>
        /\ current_scope # <<>>
        /\ current_scope[1] = Top
        /\ nodes[Top].metadata = "Default"
        /\ \A i \in 1..Len(current_scope) :
              nodes[current_scope[i]].metadata \in {"Key", "NeedKey"} =>
                  /\ i = Len(current_scope)
                  /\ i > 1
                  /\ nodes[current_scope[i - 1]].metadata = "Object"
                  /\ current_scope[i] \in Range(nodes[current_scope[i - 1]].children)

\* a key is on top of an object inside an array, after a first member of
\* that object was completed
KeyAboveNestedObject ==
    /\ round = 1 /\ pc = "build"
    /\ Len(current_scope) = 4
    /\ nodes[current_scope[2]].metadata = "Array"
    /\ nodes[current_scope[3]].metadata = "Object"
    /\ nodes[current_scope[4]].metadata = "Key"
    /\ Len(nodes[current_scope[3]].children) >= 2

====
